---- MODULE Spec2Model ----
(***************************************************************************)
(* Model of enzengDPA's scripts: blast.py (run_blast, get_blast_results,   *)
(* convert_blast_xml_to_pd), msa.py (perform_msa) and ncbi_search.py       *)
(* (fetch_protein_info_batch, fetch_all_protein_data).                     *)
(*                                                                         *)
(* The program is single-threaded: one call of one function runs at a      *)
(* time.  Init chooses the function that is called and its arguments; the  *)
(* actions are the steps of that call, one per interaction with the        *)
(* outside world (a remote request, the external clustalo process).        *)
(* The outside world's answers are drawn with \E.                          *)
(***************************************************************************)
EXTENDS Integers, Sequences, FiniteSets, TLC

\* ------------------------------------------------------------------------
\* Bounds of the model
\* ------------------------------------------------------------------------
\* polls of the status loop that are explored (the loop itself is unbounded)
MaxPolls == 3
\* rows of the hit table given to perform_msa
MaxRows == 3
\* largest num_sequences given to perform_msa
MaxNum == 4
\* longest identifier list given to fetch_all_protein_data
MaxIds == 51
\* largest explicit end_batch given to fetch_all_protein_data
MaxEndBatch == 3
\* Hit entries of a payload given to convert_blast_xml_to_pd
MaxHits == 3

\* ------------------------------------------------------------------------
\* Values
\* ------------------------------------------------------------------------
\* Python's None, where the value is otherwise a string
None == "None"

\* job handles the remote service hands out
RIDs == {"RID1", "RID2"}

\* bodies of the full-result response (opaque XML texts)
XmlTexts == {"<xml a>", "<xml b>"}

Min(a, b) == IF a <= b THEN a ELSE b

Max(a, b) == IF a >= b THEN a ELSE b

VARIABLES
    op,             \* the function that was called
    pc,             \* position of the call
    outcome,        \* "running", "returned", or "raised" (exception at the caller)
    result,         \* the value returned
    printed,        \* what print() has written, in order
    trace,          \* requests issued, file writes and sleeps, in order
    \* run_blast / get_blast_results
    rid, export, is_ready, poll_count, last_status, text_put, text_get, exported,
    args,           \* the arguments of run_blast
    put_url,        \* the query string of the submission request
    \* perform_msa
    df, query_id, num_sequences, sequences, disk, created, invoked, fasta_in,
    \* fetch_all_protein_data
    id_list, start_batch, end_batch, batch_num, all_data,
    \* convert_blast_xml_to_pd
    xml_results

commonVars == <<op, pc, outcome, result, printed, trace>>

blastVars ==
    <<rid, export, is_ready, poll_count, last_status, text_put, text_get, exported,
      args, put_url>>

msaVars == <<df, query_id, num_sequences, sequences, disk, created, invoked, fasta_in>>

fetchVars == <<id_list, start_batch, end_batch, batch_num, all_data>>

convVars == <<xml_results>>

vars == <<commonVars, blastVars, msaVars, fetchVars, convVars>>

\* an entry of trace: a request (kind = its CMD/format), a file write or a sleep;
\* ok = it did not raise; arg = what was sent, received or slept
Event(kind, ok, arg) == [kind |-> kind, ok |-> ok, arg |-> arg]

Kinds(tr) == [i \in 1..Len(tr) |-> tr[i].kind]

Count(tr, kind) == Cardinality({i \in 1..Len(tr) : tr[i].kind = kind})

\* ========================================================================
\* blast.py: run_blast, get_blast_results
\* ========================================================================

BlastOps == {"run_blast", "get_blast_results"}

\* The body of the submission response, as the pieces that
\* text_put.split('RID = ') and .split('\n') cut it into: the marker is the
\* token "RID = ", the handle is the token after it.
PutBodies ==
    {<<"<html>">>, <<"<html>", "RID = ">>}
    \cup {<<"<html>", "RID = ", r, "RTOE = 20">> : r \in RIDs}

\* 'RID = ' in text_put
HasRid(text) == \E i \in 1..Len(text) : text[i] = "RID = "

\* text_put.split('RID = ')[1].split('\n')[0].strip()
ExtractRid(text) ==
    LET i == CHOOSE j \in 1..Len(text) :
                 /\ text[j] = "RID = "
                 /\ \A k \in 1..(j - 1) : text[k] # "RID = "
    IN  IF i < Len(text) THEN text[i + 1] ELSE ""

\* The body of a status response is the set of markers it contains.  The
\* remote service answers with one of the Status markers or none of them, and
\* with or without a ThereAreHits marker.
StatusMarkers == {"Status=WAITING", "Status=FAILED", "Status=UNKNOWN", "Status=READY"}

HitsMarkers == {"ThereAreHits=yes", "ThereAreHits=no"}

StatusBodies ==
    {s \cup h : s \in {{}} \cup {{m} : m \in StatusMarkers},
                h \in {{}} \cup {{m} : m \in HitsMarkers}}

\* mutant: an UNKNOWN job is polled again, like a WAITING one
StatusOfRetryUnknown(text) ==
    IF "Status=WAITING" \in text \/ "Status=UNKNOWN" \in text THEN "WAITING"
    ELSE IF "Status=FAILED" \in text THEN "FAILED"
    ELSE IF "Status=READY" \in text THEN "READY"
    ELSE "OTHER"

\* the if / elif chain of the poll loop: the value given to last_status
StatusOf(text) ==
    IF "Status=WAITING" \in text THEN "WAITING"
    ELSE IF "Status=FAILED" \in text THEN "FAILED"
    ELSE IF "Status=UNKNOWN" \in text THEN "UNKNOWN"
    ELSE IF "Status=READY" \in text THEN "READY"
    ELSE "OTHER"

\* what the poll loop prints for a response
PollMessage(text) ==
    LET st == StatusOf(text)
    IN  IF st = "WAITING" THEN "still running"
        ELSE IF st = "FAILED" THEN "job failed"
        ELSE IF st = "UNKNOWN" THEN "job unknown"
        ELSE IF st = "READY"
             THEN IF "ThereAreHits=yes" \in text THEN "complete, hits found"
                  ELSE "complete, no hits"
        ELSE "unexpected status"

\* mutant: the result is fetched unless the job failed
FetchDecisionNotFailed(last) == last \in {"READY", "UNKNOWN", "OTHER"}

\* if last_status == 'READY': after the loop
FetchDecision(last) == last = "READY"

\* seconds slept after a WAITING response
PollSleep == 15

\* mutant: no handler around the body of the function
CatchesNothing(f) == FALSE

\* whether the body of f runs inside try: ... except Exception
Catches(f) == f = "run_blast"

\* An exception is raised in the running call after p was printed: run_blast's
\* handler prints it and returns (None, None); get_blast_results has no
\* handler and the exception reaches the caller.
Throw(p) ==
    /\ pc' = "done"
    /\ IF Catches(op)
       THEN /\ printed' = Append(p, "Error")
            /\ outcome' = "returned"
            /\ result' = <<None, None>>
       ELSE /\ printed' = p
            /\ outcome' = "raised"
            /\ result' = result

\* return v, after p was printed
Return(p, v) ==
    /\ pc' = "done"
    /\ printed' = p
    /\ outcome' = "returned"
    /\ result' = v

\* A str is the sequence of its characters.
\* str(n) of an int n >= 0
RECURSIVE StrInt(_)
StrInt(n) == IF n < 10 THEN <<ToString(n)>> ELSE Append(StrInt(n \div 10), ToString(n % 10))

\* str(x) of a float given in tenths: 100 is 10.0
StrFloat(tenths) == StrInt(tenths \div 10) \o <<".">> \o StrInt(tenths % 10)

\* the arguments run_blast is called with (export is a variable of its own)
BlastArgs ==
    [sequence : {<<"M", "S", "K">>},
     organism : {<<"B", "s", "[", "O", "]">>},
     database : {<<"n", "r">>, <<"p", "d", "b">>},
     program : {<<"b", "l", "a", "s", "t", "p">>, <<"b", "l", "a", "s", "t", "n">>},
     word_size : {6, 3},
     expect_value : {100},
     matrix : {<<"B", "6", "2">>},
     gapcosts : {<<"1", "1", " ", "1">>},
     filter_string : {<<"L">>},
     composition_stats : {2}]

\* params_put, in the order of the dict, each value as urlencode's str() of it
ParamsPut(a) ==
    << <<"CMD", <<"P", "u", "t">> >>,
       <<"QUERY", a.sequence>>,
       <<"DATABASE", <<"n", "r">> >>,
       <<"PROGRAM", <<"b", "l", "a", "s", "t", "p">> >>,
       <<"ENTREZ_QUERY", a.organism>>,
       <<"OUTPUT_TYPE", <<"X", "M", "L">> >>,
       <<"WORD_SIZE", StrInt(a.word_size)>>,
       <<"EXPECT", StrFloat(a.expect_value)>>,
       <<"MATRIX", a.matrix>>,
       <<"GAPCOSTS", a.gapcosts>>,
       <<"FILTER", a.filter_string>>,
       <<"COMPOSITION_BASED_STATISTICS", StrInt(a.composition_stats)>> >>

\* urllib's quote_plus of a character
QuoteChar(c) ==
    IF c = " " THEN "+"
    ELSE IF c = "[" THEN "%5B"
    ELSE IF c = "]" THEN "%5D"
    ELSE IF c = "+" THEN "%2B"
    ELSE IF c = "%" THEN "%25"
    ELSE c

\* urlencode(params): key=quote_plus(value) for each item, in order
Urlencode(params) ==
    [i \in 1..Len(params) |->
        <<params[i][1], [j \in 1..Len(params[i][2]) |-> QuoteChar(params[i][2][j])]>>]

\* requests.get(put_url) through the RID check
RunBlastSubmit ==
    /\ op = "run_blast" /\ pc = "put"
    /\ put_url' = Urlencode(ParamsPut(args))
    /\ \E err \in BOOLEAN, body \in PutBodies :
         /\ trace' = Append(trace, Event("Put", ~err, IF err THEN <<>> ELSE body))
         /\ IF err
            THEN /\ Throw(printed)
                 /\ UNCHANGED <<rid, text_put>>
            ELSE /\ text_put' = body
                 /\ IF HasRid(body)
                    THEN /\ rid' = ExtractRid(body)
                         /\ pc' = "poll"
                         /\ printed' = Append(printed, "RID obtained")
                         /\ UNCHANGED <<outcome, result>>
                    ELSE /\ Throw(printed)
                         /\ rid' = rid
    /\ UNCHANGED <<op, export, is_ready, poll_count, last_status, text_get, exported, args>>
    /\ UNCHANGED <<msaVars, fetchVars, convVars>>

\* one iteration of "while not is_ready", and the test after the loop when
\* the iteration leaves it
Poll(f) ==
    /\ op = f /\ pc = "poll" /\ ~is_ready
    /\ poll_count < MaxPolls
    /\ poll_count' = poll_count + 1
    /\ \E err \in BOOLEAN, body \in StatusBodies :
         IF err
         THEN /\ trace' = Append(trace, Event("SearchInfo", FALSE, {}))
              /\ Throw(printed)
              /\ UNCHANGED <<text_get, last_status, is_ready>>
         ELSE LET st == StatusOf(body)
                  p == Append(printed, PollMessage(body))
                  t == Append(trace, Event("SearchInfo", TRUE, body))
              IN  /\ text_get' = body
                  /\ last_status' = st
                  /\ is_ready' = (st = "READY")
                  /\ IF st = "WAITING"
                     THEN /\ trace' = Append(t, Event("sleep", TRUE, PollSleep))
                          /\ pc' = "poll"
                          /\ printed' = p
                          /\ UNCHANGED <<outcome, result>>
                     ELSE /\ trace' = t
                          /\ IF FetchDecision(st)
                             THEN /\ pc' = "fetch"
                                  /\ printed' = p
                                  /\ UNCHANGED <<outcome, result>>
                             ELSE Return(p, <<None, None>>)
    /\ UNCHANGED <<op, rid, export, text_put, exported, args, put_url>>
    /\ UNCHANGED <<msaVars, fetchVars, convVars>>

RunBlastPoll == Poll("run_blast")

GetBlastResultsPoll == Poll("get_blast_results")

\* the result request, the optional export and the return
Fetch(f) ==
    /\ op = f /\ pc = "fetch"
    /\ \E err \in BOOLEAN, xml \in XmlTexts, werr \in BOOLEAN :
         IF err
         THEN /\ trace' = Append(trace, Event("XML", FALSE, ""))
              /\ Throw(printed)
              /\ exported' = exported
         ELSE LET t == Append(trace, Event("XML", TRUE, xml))
                  p == Append(printed, "BLAST XML RESULTS")
              IN  IF export
                  THEN /\ trace' = Append(t, Event("write", ~werr, rid))
                       /\ IF werr
                          THEN /\ Throw(p)
                               /\ exported' = exported
                          ELSE /\ exported' = exported \cup {<<rid, xml>>}
                               /\ Return(Append(p, "Results written"), <<rid, xml>>)
                  ELSE /\ ~werr
                       /\ trace' = t
                       /\ exported' = exported
                       /\ Return(Append(p, "not exported"), <<rid, xml>>)
    /\ UNCHANGED <<op, rid, export, is_ready, poll_count, last_status, text_put, text_get>>
    /\ UNCHANGED <<args, put_url>>
    /\ UNCHANGED <<msaVars, fetchVars, convVars>>

RunBlastFetch == Fetch("run_blast")

GetBlastResultsFetch == Fetch("get_blast_results")

\* ========================================================================
\* blast.py: convert_blast_xml_to_pd
\* ========================================================================

\* pd.DataFrame(data) of a list of dicts: the columns are the keys that occur
\* in the dicts, and a list without dicts gives a frame without columns
DataFrame(data) ==
    [columns |-> UNION {DOMAIN data[i] : i \in 1..Len(data)}, rows |-> data]

\* pd.DataFrame()
EmptyFrame == [columns |-> {}, rows |-> <<>>]

\* An Hsp entry; a number stands for the element text that writes it
\* (bit_score in tenths).
HspA ==
    [Hsp_num |-> "1", bit_score |-> 528, score |-> 125, evalue |-> "3e-10",
     query_from |-> 1, query_to |-> 90, hit_from |-> 5, hit_to |-> 94,
     identity |-> 45, positive |-> 60, gaps |-> 0, align_len |-> 90,
     qseq |-> "MSSLKG", hseq |-> "MSTLKG", midline |-> "MS LKG"]

HspB ==
    [Hsp_num |-> "2", bit_score |-> 301, score |-> 70, evalue |-> "0.002",
     query_from |-> 100, query_to |-> 129, hit_from |-> 101, hit_to |-> 130,
     identity |-> 10, positive |-> 14, gaps |-> 2, align_len |-> 30,
     qseq |-> "MSSLKG", hseq |-> "KRIGFG", midline |-> "      "]

\* an Hsp whose Hsp_align-len is 0
HspZero == [HspA EXCEPT !.align_len = 0, !.identity = 0]

\* A Hit entry: its child elements, whether all five of them are present
\* (complete), and its Hsp entries in document order.  Hit_id is the list of
\* its '|'-separated parts.
HitOne ==
    [Hit_num |-> "1", Hit_id |-> <<"ref", "WP_000001.1", "">>,
     Hit_def |-> "dipicolinate synthase subunit A", Hit_accession |-> "WP_000001",
     Hit_len |-> "297", complete |-> TRUE, hsps |-> <<HspA>>]

HitTwo ==
    [Hit_num |-> "2", Hit_id |-> <<"QBX12345.1">>,
     Hit_def |-> "hypothetical protein", Hit_accession |-> "QBX12345",
     Hit_len |-> "310", complete |-> TRUE, hsps |-> <<HspB, HspA>>]

HitNoHsp == [HitOne EXCEPT !.Hit_num = "3", !.hsps = <<>>]

HitZeroLen == [HitOne EXCEPT !.Hit_num = "4", !.hsps = <<HspZero>>]

HitIncomplete == [HitTwo EXCEPT !.Hit_num = "5", !.complete = FALSE]

SampleHits == {HitOne, HitTwo, HitNoHsp, HitZeroLen, HitIncomplete}

\* round(int(identity) / int(align_len) * 100, 2), in hundredths of a percent
PercentIdentity(identity, align_len) ==
    (identity * 20000 + align_len) \div (2 * align_len)

\* the dict appended to data for a Hit and its first Hsp
HitRow(hit, hsp) ==
    [Hit_num |-> hit.Hit_num, Hit_id |-> hit.Hit_id, Hit_def |-> hit.Hit_def,
     Hit_accession |-> hit.Hit_accession, Hit_len |-> hit.Hit_len,
     Hsp_num |-> hsp.Hsp_num, Bit_score |-> hsp.bit_score, Score |-> hsp.score,
     E_value |-> hsp.evalue, Query_from |-> hsp.query_from,
     Query_to |-> hsp.query_to, Hit_from |-> hsp.hit_from, Hit_to |-> hsp.hit_to,
     Identity |-> hsp.identity, Positive |-> hsp.positive, Gaps |-> hsp.gaps,
     Align_len |-> hsp.align_len,
     Percent_identity |-> PercentIdentity(hsp.identity, hsp.align_len),
     Query_seq |-> hsp.qseq, Hit_seq |-> hsp.hseq, Midline |-> hsp.midline]

\* the body of "for hit in root.findall('.//Hit')" raises for this Hit:
\* .text of a child that is absent, or the division by an align_len of 0
HitRaises(hit) ==
    \/ ~hit.complete
    \/ /\ hit.hsps # <<>>
       /\ hit.hsps[1].align_len = 0

\* mutant: the last Hsp of the Hit is taken
LastHsp(hit) == hit.hsps[Len(hit.hsps)]

\* hit.find('.//Hsp'): the first Hsp of the Hit in document order
FirstHsp(hit) == hit.hsps[1]

\* the loop over the Hit entries: data, and whether an iteration raised
RECURSIVE ConvertHits(_, _)
ConvertHits(hits, data) ==
    IF hits = <<>> THEN [raised |-> FALSE, data |-> data]
    ELSE LET hit == Head(hits)
         IN  IF HitRaises(hit) THEN [raised |-> TRUE, data |-> data]
             ELSE IF hit.hsps # <<>>
                  THEN ConvertHits(Tail(hits), Append(data, HitRow(hit, FirstHsp(hit))))
                  ELSE ConvertHits(Tail(hits), data)

\* convert_blast_xml_to_pd: it has no handler, every exception reaches the caller
ConvertBlastXmlToPd ==
    /\ op = "convert_blast_xml_to_pd" /\ pc = "start"
    /\ pc' = "done"
    /\ \E werr \in BOOLEAN :
         IF ~xml_results.wellformed
         THEN /\ ~werr
              /\ outcome' = "raised"
              /\ UNCHANGED <<result, printed, trace, exported>>
         ELSE LET conv == ConvertHits(xml_results.hits, <<>>)
                  frame == DataFrame(conv.data)
                  p == Append(printed, "DataFrame shape")
              IN  IF conv.raised
                  THEN /\ ~werr
                       /\ outcome' = "raised"
                       /\ UNCHANGED <<result, printed, trace, exported>>
                  ELSE IF export
                  THEN /\ trace' = Append(trace, Event("write", ~werr, rid))
                       /\ IF werr
                          THEN /\ outcome' = "raised"
                               /\ printed' = p
                               /\ UNCHANGED <<result, exported>>
                          ELSE /\ outcome' = "returned"
                               /\ result' = frame
                               /\ printed' = Append(p, "DataFrame saved")
                               /\ exported' = exported \cup {<<rid, frame>>}
                  ELSE /\ ~werr
                       /\ outcome' = "returned"
                       /\ result' = frame
                       /\ printed' = p
                       /\ UNCHANGED <<trace, exported>>
    /\ UNCHANGED <<op, rid, export, is_ready, poll_count, last_status, text_put, text_get>>
    /\ UNCHANGED <<args, put_url>>
    /\ UNCHANGED <<msaVars, fetchVars, convVars>>

\* the payloads given to convert_blast_xml_to_pd
RECURSIVE SeqsUpTo(_, _)
SeqsUpTo(S, n) ==
    IF n = 0 THEN {<<>>}
    ELSE LET shorter == SeqsUpTo(S, n - 1)
         IN  shorter \cup {Append(q, x) : q \in shorter, x \in S}

Payloads == [wellformed : BOOLEAN, hits : SeqsUpTo(SampleHits, MaxHits)]

\* ========================================================================
\* msa.py: perform_msa
\* ========================================================================

\* the rows of a hit table, as convert_blast_xml_to_pd builds them
HitRows == {HitRow(HitOne, HitOne.hsps[1]), HitRow(HitTwo, HitTwo.hsps[1])}

QueryIds == {"SPY12701.1"}

\* return None; and the alignment AlignIO.read gives for the records aligned
MsaNone == [kind |-> "None", ids |-> <<>>]

Alignment(records) ==
    [kind |-> "alignment", ids |-> [i \in 1..Len(records) |-> records[i].id]]

\* the SeqRecord of the query
QueryRecord(qid, query_seq_str) ==
    [seq |-> query_seq_str, id |-> qid, name |-> qid,
     description |-> <<"Query Sequence", qid>>]

\* accession_parts[1] if len(accession_parts) > 1 else row['Hit_accession']
SeqId(row) == IF Len(row.Hit_id) > 1 THEN row.Hit_id[2] ELSE row.Hit_accession

\* the SeqRecord of a hit row
HitRecord(row) ==
    [seq |-> row.Hit_seq, id |-> SeqId(row), name |-> SeqId(row),
     description |-> <<SeqId(row), row.Hit_def>>]

\* df.head(max(0, num_sequences - 1))
TopHits(rows, n) == SubSeq(rows, 1, Min(Len(rows), Max(0, n - 1)))

\* the list "sequences" after the loop over top_hits: the hit records
\* (query_record is built, and appended nowhere)
CollectSequences(rows, n) ==
    LET top == TopHits(rows, n)
    IN  [i \in 1..Len(top) |-> HitRecord(top[i])]

\* mutant: an alignment of a single sequence is attempted
TooFewBelowOne(seqs) == Len(seqs) < 1

\* if len(sequences) < 2
TooFew(seqs) == Len(seqs) < 2

TempIn == "temp_input.fasta"

TempOut == "temp_output.fasta"

\* perform_msa up to the temporary input file
PerformMsaPrepare ==
    /\ op = "perform_msa" /\ pc = "start"
    /\ IF df = <<>>
       THEN /\ Return(Append(printed, "Error: Input DataFrame is empty"), MsaNone)
            /\ UNCHANGED <<trace, sequences, disk, created, fasta_in>>
       ELSE LET seqs == CollectSequences(df, num_sequences)
            IN  /\ sequences' = seqs
                /\ IF TooFew(seqs)
                   THEN /\ Return(Append(printed, "Error: Need at least two sequences"),
                                  MsaNone)
                        /\ UNCHANGED <<trace, disk, created, fasta_in>>
                   ELSE \E werr \in BOOLEAN :
                          LET p == Append(printed, "Prepared sequences")
                          IN  /\ trace' = Append(trace, Event("write", ~werr, TempIn))
                              /\ IF werr
                                 THEN /\ pc' = "done"
                                      /\ outcome' = "raised"
                                      /\ printed' = p
                                      /\ UNCHANGED <<result, disk, created, fasta_in>>
                                 ELSE /\ pc' = "run"
                                      /\ printed' = Append(p, "Sequences saved")
                                      /\ disk' = disk \cup {TempIn}
                                      /\ created' = created \cup {TempIn}
                                      /\ fasta_in' = seqs
                                      /\ UNCHANGED <<outcome, result>>
    /\ UNCHANGED <<op, df, query_id, num_sequences, invoked>>
    /\ UNCHANGED <<blastVars, fetchVars, convVars>>

\* the files that exist after the handler's "if os.path.exists(f): os.remove(f)"
CleanUpOnError(files) == files \ {TempIn, TempOut}

\* perform_msa from subprocess.run to the return.  The external process may
\* fail to start (subprocess.run raises), end with a code that is not 0, or
\* end with 0; in each case it may or may not have written its output file,
\* and reading the output may raise.
PerformMsaRun ==
    /\ op = "perform_msa" /\ pc = "run"
    /\ invoked' = TRUE
    /\ \E started \in BOOLEAN, code \in {0, 1}, wrote \in BOOLEAN, readable \in BOOLEAN :
         LET p == Append(printed, "Running clustalo")
             after == IF started /\ wrote THEN disk \cup {TempOut} ELSE disk
             made == IF started /\ wrote THEN created \cup {TempOut} ELSE created
         IN  /\ trace' = Append(trace, Event("clustalo", started /\ code = 0, fasta_in))
             /\ created' = made
             /\ IF ~started
                THEN /\ code = 0 /\ ~wrote /\ ~readable
                     /\ disk' = CleanUpOnError(after)
                     /\ Return(Append(p, "Error during alignment"), MsaNone)
                ELSE IF code # 0
                THEN /\ ~readable
                     /\ disk' = after
                     /\ Return(Append(p, "Clustal Omega failed"), MsaNone)
                ELSE IF wrote /\ readable
                THEN /\ disk' = (after \ {TempIn}) \ {TempOut}
                     /\ Return(Append(Append(p, "Alignment completed"), "cleaned up"),
                               Alignment(fasta_in))
                ELSE /\ ~readable
                     /\ disk' = CleanUpOnError(after)
                     /\ Return(Append(Append(p, "Alignment completed"),
                                      "Error during alignment"), MsaNone)
    /\ UNCHANGED <<op, df, query_id, num_sequences, sequences, fasta_in>>
    /\ UNCHANGED <<blastVars, fetchVars, convVars>>

\* ========================================================================
\* ncbi_search.py: fetch_protein_info_batch, fetch_all_protein_data
\* ========================================================================

BATCH_SIZE == 25

\* seconds slept after a page that was fetched
PageSleep == 1

\* Python's id_list[start_index:end_index] (indices from 0, end excluded,
\* both clamped to the list)
Slice(list, start_index, end_index) ==
    SubSeq(list, Min(start_index, Len(list)) + 1, Min(end_index, Len(list)))

\* mutant: the page ends one identifier early
BatchIdsShort(list, batch_number) ==
    Slice(list, (batch_number - 1) * BATCH_SIZE, batch_number * BATCH_SIZE - 1)

\* batch_ids of fetch_protein_info_batch
BatchIds(list, batch_number) ==
    Slice(list, (batch_number - 1) * BATCH_SIZE, batch_number * BATCH_SIZE)

\* the dict built for a GBSeq entry; the remote service answers a page with
\* one entry for each identifier asked for
ProteinRow(id) ==
    [definition |-> "protein", primary_accession |-> id, organism |-> "Bacillus subtilis",
     locus |-> id, length |-> "297", moltype |-> "AA", topology |-> "linear",
     division |-> "BCT", update_date |-> None, create_date |-> None,
     accession_version |-> id, source |-> None, taxonomy |-> None]

\* the frame fetch_protein_info_batch returns for the identifiers of a page
PageFrame(ids) == DataFrame([i \in 1..Len(ids) |-> ProteinRow(ids[i])])

\* end_batch after "if end_batch is None: end_batch = (len(id_list) + 24) // 25"
\* (the argument is <<>> for None, <<e>> for e)
EndBatch(list, arg) == IF arg = <<>> THEN (Len(list) + 24) \div 25 ELSE arg[1]

\* pd.concat(all_data, ignore_index=True)
RECURSIVE ConcatRows(_)
ConcatRows(frames) ==
    IF frames = <<>> THEN <<>>
    ELSE Head(frames).rows \o ConcatRows(Tail(frames))

PdConcat(frames) ==
    [columns |-> UNION {frames[i].columns : i \in 1..Len(frames)},
     rows |-> ConcatRows(frames)]

\* mutant: the loop is left at the first page that raises
BreakOnError(b, e) == e + 1

\* the batch that follows batch b when b raised: "continue"
AfterError(b, e) == b + 1

\* one iteration of "for batch_num in range(start_batch, end_batch + 1)"
FetchBatch ==
    /\ op = "fetch_all_protein_data" /\ pc = "loop"
    /\ batch_num <= EndBatch(id_list, end_batch)
    /\ \E err \in BOOLEAN :
         LET ids == BatchIds(id_list, batch_num)
             p == Append(printed, <<"Fetching batch", batch_num>>)
             t == Append(trace, Event("efetch", ~err, [page |-> batch_num, ids |-> ids]))
         IN  IF err
             THEN /\ trace' = t
                  /\ printed' = Append(p, <<"Error fetching batch", batch_num>>)
                  /\ all_data' = all_data
                  /\ batch_num' = AfterError(batch_num, EndBatch(id_list, end_batch))
             ELSE /\ trace' = Append(t, Event("sleep", TRUE, PageSleep))
                  /\ printed' = p
                  /\ all_data' = Append(all_data, PageFrame(ids))
                  /\ batch_num' = batch_num + 1
    /\ UNCHANGED <<op, pc, outcome, result, id_list, start_batch, end_batch>>
    /\ UNCHANGED <<blastVars, msaVars, convVars>>

\* after the loop
FetchAllReturn ==
    /\ op = "fetch_all_protein_data" /\ pc = "loop"
    /\ batch_num > EndBatch(id_list, end_batch)
    /\ Return(printed, IF all_data # <<>> THEN PdConcat(all_data) ELSE EmptyFrame)
    /\ UNCHANGED <<op, trace, fetchVars>>
    /\ UNCHANGED <<blastVars, msaVars, convVars>>

\* ------------------------------------------------------------------------
\* the state before the call
\* ------------------------------------------------------------------------
IdleBlast ==
    /\ rid = None /\ export = FALSE /\ is_ready = FALSE /\ poll_count = 0
    /\ last_status = "" /\ text_put = <<>> /\ text_get = {} /\ exported = {}
    /\ args = <<>> /\ put_url = <<>>

IdleMsa ==
    /\ df = <<>> /\ query_id = "" /\ num_sequences = 0 /\ sequences = <<>>
    /\ disk = {} /\ created = {} /\ invoked = FALSE /\ fasta_in = <<>>

IdleFetch ==
    /\ id_list = <<>> /\ start_batch = 1 /\ end_batch = <<>> /\ batch_num = 1
    /\ all_data = <<>>

IdleConv == xml_results = [wellformed |-> TRUE, hits |-> <<>>]

InitCommon ==
    /\ outcome = "running" /\ printed = <<>> /\ trace = <<>>

InitRunBlast ==
    /\ op = "run_blast" /\ pc = "put" /\ result = <<None, None>>
    /\ InitCommon
    /\ rid = None /\ export \in BOOLEAN /\ is_ready = FALSE /\ poll_count = 0
    /\ last_status = "" /\ text_put = <<>> /\ text_get = {} /\ exported = {}
    /\ args \in BlastArgs /\ put_url = <<>>
    /\ IdleMsa /\ IdleFetch /\ IdleConv

InitGetBlastResults ==
    /\ op = "get_blast_results" /\ pc = "poll" /\ result = <<None, None>>
    /\ InitCommon
    /\ rid \in RIDs /\ export \in BOOLEAN /\ is_ready = FALSE /\ poll_count = 0
    /\ last_status = "" /\ text_put = <<>> /\ text_get = {} /\ exported = {}
    /\ args = <<>> /\ put_url = <<>>
    /\ IdleMsa /\ IdleFetch /\ IdleConv

InitConvert ==
    /\ op = "convert_blast_xml_to_pd" /\ pc = "start" /\ result = EmptyFrame
    /\ InitCommon
    /\ rid \in RIDs /\ export \in BOOLEAN /\ is_ready = FALSE /\ poll_count = 0
    /\ last_status = "" /\ text_put = <<>> /\ text_get = {} /\ exported = {}
    /\ args = <<>> /\ put_url = <<>>
    /\ xml_results \in Payloads
    /\ IdleMsa /\ IdleFetch

InitPerformMsa ==
    /\ op = "perform_msa" /\ pc = "start" /\ result = MsaNone
    /\ InitCommon
    /\ df \in SeqsUpTo(HitRows, MaxRows)
    /\ query_id \in QueryIds
    /\ num_sequences \in 0..MaxNum
    /\ sequences = <<>> /\ disk = {} /\ created = {} /\ invoked = FALSE
    /\ fasta_in = <<>>
    /\ IdleBlast /\ IdleFetch /\ IdleConv

InitFetchAll ==
    /\ op = "fetch_all_protein_data" /\ pc = "loop" /\ result = EmptyFrame
    /\ InitCommon
    /\ \E n \in 0..MaxIds : id_list = [i \in 1..n |-> i]
    /\ start_batch \in 1..2
    /\ end_batch \in {<<>>} \cup {<<e>> : e \in 1..MaxEndBatch}
    /\ batch_num = start_batch
    /\ all_data = <<>>
    /\ IdleBlast /\ IdleMsa /\ IdleConv

Init ==
    \/ InitRunBlast
    \/ InitGetBlastResults
    \/ InitConvert
    \/ InitPerformMsa
    \/ InitFetchAll

Next ==
    \/ RunBlastSubmit
    \/ RunBlastPoll
    \/ RunBlastFetch
    \/ GetBlastResultsPoll
    \/ GetBlastResultsFetch
    \/ ConvertBlastXmlToPd
    \/ PerformMsaPrepare
    \/ PerformMsaRun
    \/ FetchBatch
    \/ FetchAllReturn

Spec == Init /\ [][Next]_vars

\* The call is the only thread of the program: whenever it has a next step
\* (a request that is answered or raises, a process that ends), it takes it.
FairSpec == Spec /\ WF_vars(Next)

\* ========================================================================
\* Properties
\* ========================================================================

Done == pc = "done"

\* the entries of tr of one kind, in order
RECURSIVE Only(_, _)
Only(tr, kind) ==
    IF tr = <<>> THEN <<>>
    ELSE IF Head(tr).kind = kind THEN <<Head(tr)>> \o Only(Tail(tr), kind)
    ELSE Only(Tail(tr), kind)

AllOk(tr) == \A i \in 1..Len(tr) : tr[i].ok

FetchIssued == Count(trace, "XML") > 0

\* text_get is the response of the last status request (the request did not
\* raise)
LastPollAnswered ==
    LET polls == Only(trace, "SearchInfo")
    IN  /\ polls # <<>>
        /\ polls[Len(polls)].ok
        /\ polls[Len(polls)].arg = text_get

\* C1: in run_blast and get_blast_results the result request (FORMAT_TYPE=XML)
\* is issued exactly when the last polled status response contains
\* Status=READY, with ThereAreHits=yes, ThereAreHits=no or neither, and the
\* call then returns (rid, payload) (when neither the result request nor the
\* export raises); when the last polled response contains Status=FAILED,
\* Status=UNKNOWN or no status marker, no result request is issued and the
\* call returns (None, None).
C1_FetchExactlyWhenReady ==
    op \in BlastOps =>
        /\ pc = "fetch" => "Status=READY" \in text_get
        /\ "Status=READY" \in text_get => pc \in {"fetch", "done"}
        /\ Done => (FetchIssued <=> "Status=READY" \in text_get)
        /\ Count(trace, "XML") <= 1
        /\ Done /\ "Status=READY" \in text_get /\ AllOk(trace) =>
              /\ outcome = "returned"
              /\ result = <<rid, Only(trace, "XML")[1].arg>>
        /\ /\ Done /\ LastPollAnswered
           /\ \/ "Status=FAILED" \in text_get
              \/ "Status=UNKNOWN" \in text_get
              \/ text_get \cap StatusMarkers = {}
           =>
              /\ ~FetchIssued
              /\ outcome = "returned"
              /\ result = <<None, None>>

\* C1 witness: get_blast_results saw Status=READY with ThereAreHits=no,
\* issued the result request and returned (rid, payload)
C1_Witness ==
    /\ op = "get_blast_results" /\ Done
    /\ text_get = {"Status=READY", "ThereAreHits=no"}
    /\ FetchIssued
    /\ outcome = "returned"
    /\ result[1] = rid /\ result[2] \in XmlTexts

\* the submission response arrived and does not contain 'RID = '
NoRidInPutResponse ==
    /\ op = "run_blast" /\ Done
    /\ trace # <<>> /\ trace[1].kind = "Put" /\ trace[1].ok
    /\ ~HasRid(text_put)

\* C2 as stated: when the submission response does not contain 'RID = ',
\* run_blast raises an exception that reaches its caller, and no status poll
\* or result request is issued.
C2_RaisesToCaller ==
    NoRidInPutResponse =>
        /\ outcome = "raised"
        /\ Kinds(trace) = <<"Put">>

\* C2 amended: when the submission response does not contain 'RID = ',
\* run_blast raises an exception that its own handler catches and prints, it
\* returns (None, None), and no status poll or result request is issued.
C2_CaughtAndNoneReturned ==
    NoRidInPutResponse =>
        /\ outcome = "returned"
        /\ result = <<None, None>>
        /\ printed = <<"Error">>
        /\ Kinds(trace) = <<"Put">>

\* C2 witness: run_blast ended on a submission response without 'RID = '
C2_Witness == NoRidInPutResponse /\ text_put = <<"<html>">>

\* C3 as stated: in run_blast and get_blast_results an exception raised by a
\* status poll request or by the result request is caught, printed and turned
\* into the return value (None, None); none reaches the caller.
C3_NoExceptionEscapes ==
    /\ op \in BlastOps /\ Done
    /\ \E i \in 1..Len(trace) : trace[i].kind \in {"SearchInfo", "XML"} /\ ~trace[i].ok
    => /\ outcome = "returned"
       /\ result = <<None, None>>
       /\ printed # <<>> /\ printed[Len(printed)] = "Error"

\* C4 as stated: on every exit of perform_msa reached after the temporary
\* input file was created, neither temporary file exists on disk.
C4_NoTempFilesLeft ==
    op = "perform_msa" /\ Done /\ TempIn \in created => disk = {}

\* C5: when fewer than 2 sequences are available to perform_msa (an empty hit
\* table, or fewer than 2 collected records) it returns None after printing
\* an error, the external executable is not invoked and no temporary file is
\* created or left.
C5_TooFewSequences ==
    op = "perform_msa" /\ Done /\ (df = <<>> \/ Len(sequences) < 2) =>
        /\ outcome = "returned"
        /\ result = MsaNone
        /\ Len(printed) = 1
        /\ printed[1] \in {"Error: Input DataFrame is empty",
                           "Error: Need at least two sequences"}
        /\ ~invoked
        /\ Count(trace, "clustalo") = 0
        /\ created = {}
        /\ disk = {}

\* C5 witness: a hit table with rows, a single collected record, None returned
C5_Witness ==
    /\ op = "perform_msa" /\ Done
    /\ Len(df) = 2 /\ Len(sequences) = 1
    /\ result = MsaNone /\ ~invoked

\* C6 as stated: the records written to the temporary input file are the
\* query record (query_id, first row's Query_seq) followed by the selected
\* top hit records, and a hit table of one row with num_sequences >= 2 gives
\* 2 sequences and goes on to the invocation.
C6_QueryPlusTopHits ==
    op = "perform_msa" /\ df # <<>> =>
        /\ TempIn \in created =>
              fasta_in = <<QueryRecord(query_id, df[1].Query_seq)>>
                         \o [i \in 1..Len(TopHits(df, num_sequences)) |->
                               HitRecord(TopHits(df, num_sequences)[i])]
        /\ Done /\ Len(df) = 1 /\ num_sequences >= 2 /\ AllOk(Only(trace, "write")) =>
              invoked

\* ceil(n / d), for d > 0
CeilDiv(n, d) == CHOOSE q \in 0..n : (q - 1) * d < n /\ n <= q * d

\* the page calls issued so far, in order
PageCalls == Only(trace, "efetch")

\* C7: for a list of n identifiers and the default batch bounds,
\* fetch_all_protein_data issues exactly ceil(n / 25) page calls, in
\* increasing page order, and page k asks for exactly the identifiers at
\* positions (k-1)*25+1 .. min(k*25, n).
C7_PagesOfTwentyFive ==
    op = "fetch_all_protein_data" /\ start_batch = 1 /\ end_batch = <<>> =>
        LET n == Len(id_list)
        IN  /\ Len(PageCalls) <= CeilDiv(n, 25)
            /\ Done => Len(PageCalls) = CeilDiv(n, 25)
            /\ \A k \in 1..Len(PageCalls) :
                 /\ PageCalls[k].arg.page = k
                 /\ PageCalls[k].arg.ids =
                      [j \in 1..(Min(k * 25, n) - (k - 1) * 25) |->
                         id_list[(k - 1) * 25 + j]]

\* C7 witness: 30 identifiers, 2 page calls, the second for identifiers 26..30
C7_Witness ==
    /\ op = "fetch_all_protein_data" /\ Done
    /\ start_batch = 1 /\ end_batch = <<>>
    /\ Len(id_list) = 30
    /\ Len(PageCalls) = 2
    /\ PageCalls[2].arg.ids = <<26, 27, 28, 29, 30>>

\* the rows of the pages that were fetched without an exception, in call order
RECURSIVE RowsOfOk(_)
RowsOfOk(calls) ==
    IF calls = <<>> THEN <<>>
    ELSE (IF Head(calls).ok
          THEN [i \in 1..Len(Head(calls).arg.ids) |-> ProteinRow(Head(calls).arg.ids[i])]
          ELSE <<>>)
         \o RowsOfOk(Tail(calls))

\* C8: in fetch_all_protein_data a page that raises is logged, contributes no
\* rows and is not retried, every later page is still fetched, and the table
\* returned is the concatenation in page order of the tables of the pages
\* that succeeded (an empty table when every page fails).
C8_FailedPageSkipped ==
    op = "fetch_all_protein_data" /\ Done =>
        LET e == EndBatch(id_list, end_batch)
            count == IF e >= start_batch THEN e - start_batch + 1 ELSE 0
        IN  /\ Len(PageCalls) = count
            /\ \A k \in 1..count : PageCalls[k].arg.page = start_batch + k - 1
            /\ \A k \in 1..count :
                 ~PageCalls[k].ok <=>
                     \E i \in 1..Len(printed) :
                        printed[i] = <<"Error fetching batch", start_batch + k - 1>>
            /\ outcome = "returned"
            /\ result.rows = RowsOfOk(PageCalls)
            /\ (\A k \in 1..count : ~PageCalls[k].ok) => result = EmptyFrame

\* C8 witness: the first page raised, a later page was fetched and its rows
\* are the table returned
C8_Witness ==
    /\ op = "fetch_all_protein_data" /\ Done
    /\ Len(PageCalls) = 2
    /\ ~PageCalls[1].ok /\ PageCalls[2].ok
    /\ Len(id_list) = 30
    /\ Len(result.rows) = 5

\* C9 as stated: between any two successive page calls of
\* fetch_all_protein_data there is a 1-second sleep, whatever the outcome of
\* the earlier call.
C9_SleepBetweenPageCalls ==
    op = "fetch_all_protein_data" =>
        \A i \in 1..Len(trace), j \in 1..Len(trace) :
            i < j /\ trace[i].kind = "efetch" /\ trace[j].kind = "efetch" =>
                \E m \in (i + 1)..(j - 1) :
                    trace[m].kind = "sleep" /\ trace[m].arg = 1

\* the columns of a hit record
HitColumns ==
    {"Hit_num", "Hit_id", "Hit_def", "Hit_accession", "Hit_len", "Hsp_num",
     "Bit_score", "Score", "E_value", "Query_from", "Query_to", "Hit_from",
     "Hit_to", "Identity", "Positive", "Gaps", "Align_len", "Percent_identity",
     "Query_seq", "Hit_seq", "Midline"}

\* C10 as stated: convert_blast_xml_to_pd of a well-formed payload without
\* Hit entries returns, without raising, a table of zero rows whose columns
\* are the hit-record columns.
C10_EmptyPayloadDeclaredColumns ==
    /\ op = "convert_blast_xml_to_pd" /\ Done
    /\ xml_results.wellformed /\ xml_results.hits = <<>>
    /\ AllOk(trace)
    => /\ outcome = "returned"
       /\ result.rows = <<>>
       /\ result.columns = HitColumns

\* what the remote service reads back from a quoted character
UnquoteChar(q) ==
    IF q = "+" THEN " "
    ELSE IF q = "%5B" THEN "["
    ELSE IF q = "%5D" THEN "]"
    ELSE IF q = "%2B" THEN "+"
    ELSE IF q = "%25" THEN "%"
    ELSE q

\* the value of parameter key in the submission request, as the service reads it
PutParam(key) ==
    LET i == CHOOSE j \in 1..Len(put_url) : put_url[j][1] = key
    IN  [k \in 1..Len(put_url[i][2]) |-> UnquoteChar(put_url[i][2][k])]

\* C11 as stated: the submission request of run_blast carries every
\* caller-supplied input unchanged: DATABASE and PROGRAM equal the database
\* and program arguments, as QUERY, ENTREZ_QUERY and the tuning parameters
\* equal theirs.
C11_ArgumentsPassThrough ==
    op = "run_blast" /\ Count(trace, "Put") > 0 =>
        /\ PutParam("QUERY") = args.sequence
        /\ PutParam("ENTREZ_QUERY") = args.organism
        /\ PutParam("DATABASE") = args.database
        /\ PutParam("PROGRAM") = args.program
        /\ PutParam("WORD_SIZE") = StrInt(args.word_size)
        /\ PutParam("EXPECT") = StrFloat(args.expect_value)
        /\ PutParam("MATRIX") = args.matrix
        /\ PutParam("GAPCOSTS") = args.gapcosts
        /\ PutParam("FILTER") = args.filter_string
        /\ PutParam("COMPOSITION_BASED_STATISTICS") = StrInt(args.composition_stats)

\* the part of C11 the code keeps: the parameters other than DATABASE and PROGRAM
C11_OtherArgumentsPassThrough ==
    op = "run_blast" /\ Count(trace, "Put") > 0 =>
        /\ PutParam("QUERY") = args.sequence
        /\ PutParam("ENTREZ_QUERY") = args.organism
        /\ PutParam("WORD_SIZE") = StrInt(args.word_size)
        /\ PutParam("EXPECT") = StrFloat(args.expect_value)
        /\ PutParam("MATRIX") = args.matrix
        /\ PutParam("GAPCOSTS") = args.gapcosts
        /\ PutParam("FILTER") = args.filter_string
        /\ PutParam("COMPOSITION_BASED_STATISTICS") = StrInt(args.composition_stats)

\* C12: convert_blast_xml_to_pd gives at most one row for each Hit entry: a
\* Hit with at least one Hsp gives exactly one row, built from its first Hsp
\* in document order, a Hit without Hsp gives no row, and the rows are in the
\* order of their Hit entries in the payload.
C12_OneRowPerHitFirstHsp ==
    op = "convert_blast_xml_to_pd" /\ Done /\ outcome = "returned" =>
        LET hits == xml_results.hits
            withHsp == {i \in 1..Len(hits) : hits[i].hsps # <<>>}
            rank(i) == Cardinality({j \in withHsp : j <= i})
        IN  /\ Len(result.rows) = Cardinality(withHsp)
            /\ Len(result.rows) <= Len(hits)
            /\ \A i \in withHsp :
                 /\ result.rows[rank(i)].Hit_num = hits[i].Hit_num
                 /\ result.rows[rank(i)].Hsp_num = hits[i].hsps[1].Hsp_num
                 /\ result.rows[rank(i)] = HitRow(hits[i], hits[i].hsps[1])

\* C12 witness: a Hit with two Hsp entries, a Hit without Hsp and a Hit with
\* one Hsp gave two rows, the first from the first Hsp of the first Hit
C12_Witness ==
    /\ op = "convert_blast_xml_to_pd" /\ Done /\ outcome = "returned"
    /\ xml_results.hits = <<HitTwo, HitNoHsp, HitOne>>
    /\ Len(result.rows) = 2
    /\ result.rows[1].Hsp_num = HitTwo.hsps[1].Hsp_num
    /\ result.rows[2].Hit_num = HitOne.Hit_num

\* a status request that was answered with a body containing Status=WAITING
AnsweredWaiting(e) == e.kind = "SearchInfo" /\ e.ok /\ "Status=WAITING" \in e.arg

\* the status requests issued so far
Polls == Only(trace, "SearchInfo")

\* the last status request raised or was answered without Status=WAITING
LoopLeft ==
    /\ op \in BlastOps
    /\ Polls # <<>>
    /\ ~AnsweredWaiting(Polls[Len(Polls)])

\* The steps of the poll loop: one status request for each iteration; a
\* WAITING answer is followed by a 15-second sleep and is the only one after
\* which another status request is issued; the call has not ended while every
\* answer was WAITING, and once an answer is not WAITING (or a status request
\* raised) no further status request is issued.
PollSteps ==
    op \in BlastOps =>
        /\ poll_count = Len(Polls)
        /\ \A i \in 1..Len(trace) :
             /\ AnsweredWaiting(trace[i]) =>
                   /\ i < Len(trace)
                   /\ trace[i + 1] = Event("sleep", TRUE, 15)
                   /\ i + 2 <= Len(trace) => trace[i + 2].kind = "SearchInfo"
             /\ trace[i].kind = "sleep" => i > 1 /\ AnsweredWaiting(trace[i - 1])
        /\ \A k \in 1..(Len(Polls) - 1) : AnsweredWaiting(Polls[k])
        /\ Polls # <<>> /\ AnsweredWaiting(Polls[Len(Polls)]) =>
              pc = "poll" /\ outcome = "running"
        /\ LoopLeft => pc \in {"fetch", "done"}
        /\ Done /\ Polls # <<>> => LoopLeft

\* C13: in the poll loop of run_blast and get_blast_results each iteration
\* issues exactly one status request, a response with Status=WAITING is the
\* only one that leads to another poll (after a 15-second sleep) and the loop
\* stops at the first response without Status=WAITING; so the call that
\* polls ends if and only if some status request is answered without
\* Status=WAITING or raises: it has not ended while every answer was WAITING,
\* and once such an answer arrived it always ends.
C13_PollUntilNotWaiting == [](PollSteps) /\ (LoopLeft ~> Done)

\* C13 witness: get_blast_results was answered WAITING twice, slept 15 seconds
\* after each, was then answered READY and ended
C13_Witness ==
    /\ op = "get_blast_results" /\ Done
    /\ Kinds(trace) = <<"SearchInfo", "sleep", "SearchInfo", "sleep", "SearchInfo", "XML">>
    /\ AnsweredWaiting(trace[1]) /\ AnsweredWaiting(trace[3])
    /\ trace[2].arg = 15 /\ trace[4].arg = 15
    /\ "Status=READY" \in trace[5].arg
    /\ poll_count = 3

====
